---- MODULE Spec2Model ----
(***************************************************************************)
(* Model of scripts/audit-doc-links.py: the documentation link auditor.    *)
(*                                                                         *)
(* Strings are sequences of lexemes.  A lexeme is either one of the        *)
(* characters the code looks at ("[", "]", "(", ")", "#", "/", ".", and    *)
(* "NUL" for U+0000) or a run of other characters ("docs", "md", "http:"). *)
(* No run is a concatenation or a prefix of others, so equality, prefix    *)
(* and split on lexeme sequences agree with the same operations on the     *)
(* characters.  A path is a sequence of segments from the filesystem root. *)
(* The filesystem holds no symbolic links.                                 *)
(***************************************************************************)
EXTENDS Integers, Sequences, FiniteSets, TLC

\* ------------------------------------------------------------------ bounds

\* Inline links per generated markdown file.
MaxLinks == 1
\* Lexemes in the body of a link drawn for the resolver.
MaxBodyLen == 3
\* Files an outside process removes during one run.
MaxVanish == 1

\* ----------------------------------------------------------------- strings

StartsWith(s, p) == Len(s) >= Len(p) /\ SubSeq(s, 1, Len(p)) = p

\* Least index >= from at which s holds ch, 0 when there is none.
RECURSIVE FindFirst(_, _, _)
FindFirst(s, ch, from) ==
    IF from > Len(s) THEN 0
    ELSE IF s[from] = ch THEN from
    ELSE FindFirst(s, ch, from + 1)

\* Mutant: the link cut at its last "#" (rsplit) instead of its first.
RECURSIVE FindLast(_, _, _)
FindLast(s, ch, from) ==
    IF from < 1 THEN 0
    ELSE IF s[from] = ch THEN from
    ELSE FindLast(s, ch, from - 1)

SplitHashLast(s) ==
    LET h == FindLast(s, "#", Len(s))
    IN  IF h = 0 THEN s ELSE SubSeq(s, 1, h - 1)

\* str.split('#')[0]
SplitHashFirst(s) ==
    LET h == FindFirst(s, "#", 1)
    IN  IF h = 0 THEN s ELSE SubSeq(s, 1, h - 1)

\* str.lstrip('/')
RECURSIVE LStripSlash(_)
LStripSlash(s) ==
    IF s # <<>> /\ Head(s) = "/" THEN LStripSlash(Tail(s)) ELSE s

\* str.split('/'): the pieces between slashes, empty pieces included.
RECURSIVE SplitSlash(_)
SplitSlash(s) ==
    LET h == FindFirst(s, "/", 1)
    IN  IF h = 0 THEN <<s>>
        ELSE <<SubSeq(s, 1, h - 1)>> \o SplitSlash(SubSeq(s, h + 1, Len(s)))

\* -------------------------------------------------------------------- paths

PROJECT_ROOT ==
    << <<"Users">>, <<"matteoscurati">>, <<"work">>,
       <<"api", ".", "8004", ".", "dev">> >>

Dot == <<".">>
DotDot == <<".", ".">>

\* pathlib's parsing of a relative path string: empty and "." pieces dropped.
RECURSIVE DropEmptyAndDot(_)
DropEmptyAndDot(segs) ==
    IF segs = <<>> THEN <<>>
    ELSE IF Head(segs) = <<>> \/ Head(segs) = Dot
         THEN DropEmptyAndDot(Tail(segs))
         ELSE <<Head(segs)>> \o DropEmptyAndDot(Tail(segs))

PathParts(s) == DropEmptyAndDot(SplitSlash(s))

\* Path.parent
Parent(p) == IF p = <<>> THEN <<>> ELSE SubSeq(p, 1, Len(p) - 1)

IsPrefix(p, q) == Len(p) <= Len(q) /\ SubSeq(q, 1, Len(p)) = p

\* Path.resolve() of an absolute path on a filesystem without symbolic links:
\* ".." pops the last segment (and stays at the root).
RECURSIVE ResolveFrom(_, _)
ResolveFrom(acc, segs) ==
    IF segs = <<>> THEN acc
    ELSE IF Head(segs) = DotDot THEN ResolveFrom(Parent(acc), Tail(segs))
    ELSE ResolveFrom(Append(acc, Head(segs)), Tail(segs))

Resolve(p) == ResolveFrom(<<>>, p)

HasNul(s) == \E i \in 1..Len(s) : s[i] = "NUL"

\* ---------------------------------------------------------------- variables

VARIABLES
    files,          \* filesystem: the paths that are regular files
    dirs,           \* filesystem: the paths that are directories
    unreadable,     \* regular files whose read_text raises (bad UTF-8, permissions)
    tree,           \* content of the markdown files where it is fixed in advance
    gone,           \* history: files another process removed during the run
    pc,             \* where audit_documentation stands
    out,            \* standard output: one entry per print call
    total_files, total_links, broken_links, broken_details,
    md_files,       \* the sorted list the outer loop walks
    idx,            \* position of the outer loop in md_files
    links,          \* extract_links(content) of the file being processed
    li,             \* position of the inner loop in links
    target,         \* the local variable target (result of the last resolve_link)
    ret,            \* the returned exit code
    counted,        \* history: files for which total_files was incremented
    resolve_calls,  \* history: calls of resolve_link
    exists_calls,   \* history: calls of target.exists()
    none_hits,      \* history: times the "target is None" branch was taken
    run,            \* which invocation of the auditor this is
    first           \* what the first invocation produced

vars == << files, dirs, unreadable, tree, gone, pc, out, total_files,
           total_links, broken_links, broken_details, md_files, idx, links, li,
           target, ret, counted, resolve_calls, exists_calls, none_hits, run,
           first >>

fsVars == << files, dirs, unreadable, tree >>
runVars == << out, total_files, total_links, broken_links, broken_details,
              md_files, idx, links, li, target, ret, counted, resolve_calls,
              exists_calls, none_hits >>

\* --------------------------------------------------------------- filesystem

\* Path.is_file()
is_file(p) == p \in files

\* The kernel's lookup of an absolute path that may hold ".." segments: every
\* step needs the current entry to be a directory and the next one to exist.
RECURSIVE Lookup(_, _)
Lookup(cur, segs) ==
    IF segs = <<>> THEN TRUE
    ELSE LET next == IF Head(segs) = DotDot THEN Parent(cur)
                     ELSE Append(cur, Head(segs))
         IN  /\ cur \in dirs
             /\ next \in files \cup dirs
             /\ Lookup(next, Tail(segs))

\* Path.exists(): False as well when stat rejects the path (a NUL in it).
exists(p) == Lookup(<<>>, p)

\* ------------------------------------------------------------ link classifier

HttpPrefix == <<"http:", "/", "/">>
HttpsPrefix == <<"https:", "/", "/">>
MailtoPrefix == <<"mailto:">>

\* Mutant: the mailto: prefix forgotten.
is_external_link_NoMailto(link) ==
    \/ StartsWith(link, HttpPrefix)
    \/ StartsWith(link, HttpsPrefix)

is_external_link(link) ==
    \/ StartsWith(link, HttpPrefix)
    \/ StartsWith(link, HttpsPrefix)
    \/ StartsWith(link, MailtoPrefix)

is_anchor_only(link) == StartsWith(link, <<"#">>)

\* ------------------------------------------------------------- link extractor

\* Mutant: the destination group written ([^)]*), which also matches "()".
MatchAt_EmptyDest(s, i) ==
    IF s[i] # "[" THEN <<0, 0>>
    ELSE LET j == FindFirst(s, "]", i + 1)
         IN  IF j <= i + 1 \/ j + 1 > Len(s) \/ s[j + 1] # "(" THEN <<0, 0>>
             ELSE LET k == FindFirst(s, ")", j + 2)
                  IN  IF k < j + 2 THEN <<0, 0>> ELSE <<j, k>>

\* One attempt of the pattern \[([^\]]+)\]\(([^)]+)\) at position i: the
\* positions of "]" and of the closing ")" when it matches, <<0, 0>> when not.
MatchAt(s, i) ==
    IF s[i] # "[" THEN <<0, 0>>
    ELSE LET j == FindFirst(s, "]", i + 1)
         IN  IF j <= i + 1 \/ j + 1 > Len(s) \/ s[j + 1] # "(" THEN <<0, 0>>
             ELSE LET k == FindFirst(s, ")", j + 2)
                  IN  IF k <= j + 2 THEN <<0, 0>> ELSE <<j, k>>

\* re.finditer: leftmost matches, each search resuming after the last match.
RECURSIVE ScanFrom(_, _)
ScanFrom(s, i) ==
    IF i > Len(s) THEN <<>>
    ELSE LET m == MatchAt(s, i)
         IN  IF m[2] = 0 THEN ScanFrom(s, i + 1)
             ELSE << [text |-> SubSeq(s, i + 1, m[1] - 1),
                      link |-> SubSeq(s, m[1] + 2, m[2] - 1)] >>
                  \o ScanFrom(s, m[2] + 1)

extract_links(content) == ScanFrom(content, 1)

\* -------------------------------------------------------------- link resolver

None == [tag |-> "None", path |-> <<>>]
Raised == [tag |-> "raise", path |-> <<>>]
PathOf(p) == [tag |-> "path", path |-> p]

\* Mutant: the root-relative branch missing, every link joined to the
\* directory of the source file.
resolve_link_AlwaysRelative(source_file, link) ==
    LET link_path == SplitHashFirst(link)
        source_dir == Parent(source_file)
    IN  IF link_path = <<>> THEN None
        ELSE IF HasNul(link_path) THEN Raised
        ELSE PathOf(Resolve(source_dir \o PathParts(link_path)))

\* resolve_link.  Path.resolve() raises ValueError ("embedded null byte") for a
\* path that holds a NUL; the root-relative branch never calls it.
resolve_link(source_file, link) ==
    LET link_path == SplitHashFirst(link)
        source_dir == Parent(source_file)
    IN  IF link_path = <<>> THEN None
        ELSE IF StartsWith(link_path, <<"/">>)
             THEN PathOf(PROJECT_ROOT \o PathParts(LStripSlash(link_path)))
        ELSE IF HasNul(link_path) THEN Raised
        ELSE PathOf(Resolve(source_dir \o PathParts(link_path)))

\* target.relative_to(PROJECT_ROOT) if target.is_relative_to(PROJECT_ROOT)
\* else target
ReportedTarget(p) ==
    IF IsPrefix(PROJECT_ROOT, p)
    THEN [rel |-> TRUE, path |-> SubSeq(p, Len(PROJECT_ROOT) + 1, Len(p))]
    ELSE [rel |-> FALSE, path |-> p]

\* md_file.relative_to(PROJECT_ROOT)
RelativeToRoot(p) == SubSeq(p, Len(PROJECT_ROOT) + 1, Len(p))

\* ------------------------------------------------------------ the file tree

Readme == Append(PROJECT_ROOT, <<"README", ".", "md">>)
DocsDir == Append(PROJECT_ROOT, <<"docs">>)
SubDir == Append(DocsDir, <<"sub">>)
DocA == Append(DocsDir, <<"a", ".", "md">>)
DocB == Append(SubDir, <<"b", ".", "md">>)

MdCandidates == {Readme, DocA, DocB}

Prefixes(p) == {SubSeq(p, 1, n) : n \in 0..Len(p)}

\* The directories every modelled tree holds: the root's ancestors, the root,
\* docs/ and docs/sub/.
BaseDirs == Prefixes(SubDir)

Kinds == {"file", "unreadable", "dir", "absent"}

Unset == <<"unset">>

\* ------------------------------------------------------- generated markdown

Item(text, dest) == <<"[">> \o text \o <<"]", "(">> \o dest \o <<")">>

\* Link destinations the generated files use; the empty one makes "[t]()".
Dests ==
    { <<"a", ".", "md">>,
      <<"/", "docs", "/", "a", ".", "md">>,
      <<"a", ".", "md", "#", "s">>,
      <<"#", "s">>,
      <<"http:", "/", "/", "x">>,
      <<"https:", "/", "/", "x">>,
      <<"mailto:", "x">>,
      <<"http:", "/", "x">>,
      <<"a", "NUL">>,
      <<>> }

Items == {Item(<<"t">>, d) : d \in Dests}

RECURSIVE Flatten(_)
Flatten(ss) == IF ss = <<>> THEN <<>> ELSE Head(ss) \o Flatten(Tail(ss))

Contents ==
    {Flatten(ss) : ss \in UNION {[1..n -> Items] : n \in 0..MaxLinks}}

\* What read_text may return for file f.
FileContents(f) == IF tree[f] = Unset THEN Contents ELSE {tree[f]}

\* ------------------------------------------------------------------ sorting

\* Code-point order of the lexemes that occur in the names of markdown files.
CodeOrder == <<".", "README", "a", "b", "docs", "md", "sub">>

Rank(tok) ==
    IF \E i \in 1..Len(CodeOrder) : CodeOrder[i] = tok
    THEN CHOOSE i \in 1..Len(CodeOrder) : CodeOrder[i] = tok
    ELSE 0

\* str.__lt__ on two names
RECURSIVE StrLess(_, _)
StrLess(a, b) ==
    IF b = <<>> THEN FALSE
    ELSE IF a = <<>> THEN TRUE
    ELSE IF Head(a) = Head(b) THEN StrLess(Tail(a), Tail(b))
    ELSE Rank(Head(a)) < Rank(Head(b))

\* PurePath.__lt__: the parts compared as lists
RECURSIVE PathLess(_, _)
PathLess(p, q) ==
    IF q = <<>> THEN FALSE
    ELSE IF p = <<>> THEN TRUE
    ELSE IF Head(p) = Head(q) THEN PathLess(Tail(p), Tail(q))
    ELSE StrLess(Head(p), Head(q))

Range(seq) == {seq[i] : i \in 1..Len(seq)}

RECURSIVE SortSet(_)
SortSet(S) ==
    IF S = {} THEN <<>>
    ELSE LET m == CHOOSE x \in S : \A y \in S : x = y \/ PathLess(x, y)
         IN  <<m>> \o SortSet(S \ {m})

\* Mutant: the list left in the order the directory scans produced.
SortedSet_GlobOrder(seq) == seq

\* sorted(set(md_files))
SortedSet(seq) == SortSet(Range(seq))

\* --------------------------------------------------------------------- glob

EndsWithMd(name) ==
    Len(name) >= 2 /\ SubSeq(name, Len(name) - 1, Len(name)) = <<".", "md">>

UnderRoot(p) == IsPrefix(PROJECT_ROOT, p) /\ Len(p) > Len(PROJECT_ROOT)

\* PROJECT_ROOT.glob("docs/**/*.md")
GlobDocs ==
    {p \in files \cup dirs :
        /\ UnderRoot(p)
        /\ Len(RelativeToRoot(p)) >= 2
        /\ RelativeToRoot(p)[1] = <<"docs">>
        /\ EndsWithMd(p[Len(p)])}

\* PROJECT_ROOT.glob("*.md")
GlobRoot ==
    {p \in files \cup dirs :
        /\ UnderRoot(p)
        /\ Len(RelativeToRoot(p)) = 1
        /\ EndsWithMd(p[Len(p)])}

\* The orders in which a directory scan may yield the entries of S.
Orders(S) == {s \in [1..Cardinality(S) -> S] : Range(s) = S}

\* ------------------------------------------------------------------- output

Line(k, v) == [k |-> k, v |-> v]

\* lines 50-52
HeaderLines == << Line("title", <<>>), Line("rule", <<>>), Line("blank", <<>>) >>

\* line 80
Warning(f) == Line("warn", <<RelativeToRoot(f)>>)

\* lines 116-119
BlockLines(d) ==
    << Line("file", <<d.source>>), Line("link", <<d.text, d.link>>),
       Line("expected", <<d.target>>), Line("blank", <<>>) >>

RECURSIVE Blocks(_)
Blocks(details) ==
    IF details = <<>> THEN <<>>
    ELSE BlockLines(Head(details)) \o Blocks(Tail(details))

\* lines 122-127
SummaryLines(tf, tl, bl) ==
    << Line("rule", <<>>), Line("summary", <<>>), Line("files", <<tf>>),
       Line("links", <<tl>>), Line("broken", <<bl>>), Line("blank", <<>>) >>

\* lines 130 and 133
StatusLine(bl) ==
    IF bl = 0 THEN Line("all_valid", <<>>) ELSE Line("found", <<bl>>)

\* Mutant: the summary printed before the broken-link blocks.
ReportLines_SummaryFirst(details, tf, tl, bl) ==
    SummaryLines(tf, tl, bl)
    \o (IF details # <<>>
        THEN <<Line("broken_title", <<>>)>> \o Blocks(details)
        ELSE <<>>)
    \o <<StatusLine(bl)>>

\* lines 112-133: everything printed after the loop
ReportLines(details, tf, tl, bl) ==
    (IF details # <<>>
     THEN <<Line("broken_title", <<>>)>> \o Blocks(details)
     ELSE <<>>)
    \o SummaryLines(tf, tl, bl) \o <<StatusLine(bl)>>

\* Mutant: the count itself returned.
ExitCode_ReturnsCount(bl) == bl

\* lines 129-134
ExitCode(bl) == IF bl = 0 THEN 0 ELSE 1

\* lines 105-110
Detail(source_file, l, p) ==
    [source |-> RelativeToRoot(source_file), link |-> l.link,
     target |-> ReportedTarget(p), text |-> l.text]

\* line 104
CountBroken(n) == n + 1

\* Mutant: the list rebuilt from the new record instead of appended to.
RecordBroken_KeepLast(details, d) == <<d>>

\* line 105
RecordBroken(details, d) == Append(details, d)

\* ------------------------------------------------------------------ actions

NoRet == -1
NoTarget == [tag |-> "unset", path |-> <<>>]
NoFirst == [pc |-> "none"]

md_file == md_files[idx]

\* Lines 50-69: the header, the counters, the enumeration of the files.
Start ==
    /\ pc = "start"
    /\ out' = out \o HeaderLines
    /\ total_files' = 0
    /\ total_links' = 0
    /\ broken_links' = 0
    /\ broken_details' = <<>>
    /\ \E g1 \in Orders(GlobDocs), g2 \in Orders(GlobRoot) :
           md_files' = SortedSet(g1 \o g2)
    /\ idx' = 1
    /\ pc' = "file"
    /\ UNCHANGED << fsVars, gone, links, li, target, ret, counted,
                    resolve_calls, exists_calls, none_hits, run, first >>

\* Lines 71-75: the head of the outer loop.
NextFile ==
    /\ pc = "file"
    /\ \/ /\ idx > Len(md_files)
          /\ pc' = "report"
          /\ UNCHANGED << idx, total_files, counted >>
       \/ /\ idx <= Len(md_files)
          /\ ~is_file(md_file)
          /\ idx' = idx + 1
          /\ UNCHANGED << pc, total_files, counted >>
       \/ /\ idx <= Len(md_files)
          /\ is_file(md_file)
          /\ total_files' = total_files + 1
          /\ counted' = counted \cup {md_file}
          /\ pc' = "read"
          /\ UNCHANGED idx
    /\ UNCHANGED << fsVars, gone, out, total_links, broken_links,
                    broken_details, md_files, links, li, target, ret,
                    resolve_calls, exists_calls, none_hits, run, first >>

\* read_text raises: the file is gone, or it cannot be read or decoded.
ReadRaises(f) == f \notin files \/ f \in unreadable

\* Lines 77-83.
ReadFile ==
    /\ pc = "read"
    /\ \/ /\ ReadRaises(md_file)
          /\ out' = Append(out, Warning(md_file))
          /\ idx' = idx + 1
          /\ pc' = "file"
          /\ UNCHANGED << links, li >>
       \/ /\ ~ReadRaises(md_file)
          /\ \E content \in FileContents(md_file) :
                 links' = extract_links(content)
          /\ li' = 1
          /\ pc' = "link"
          /\ UNCHANGED << out, idx >>
    /\ UNCHANGED << fsVars, gone, total_files, total_links, broken_links,
                    broken_details, md_files, target, ret, counted,
                    resolve_calls, exists_calls, none_hits, run, first >>

\* Lines 85-110: one iteration of the inner loop, or its end.  The locals
\* links and target are dead once the inner loop ends and are cleared there.
LinkStep ==
    /\ pc = "link"
    /\ IF li > Len(links)
       THEN /\ idx' = idx + 1
            /\ pc' = "file"
            /\ links' = <<>>
            /\ li' = 1
            /\ target' = NoTarget
            /\ UNCHANGED << total_links, broken_links, broken_details,
                            resolve_calls, exists_calls, none_hits >>
       ELSE LET l == links[li]
                r == resolve_link(md_file, l.link)
            IN  IF is_external_link(l.link) \/ is_anchor_only(l.link)
                THEN /\ li' = li + 1
                     /\ UNCHANGED << idx, pc, links, total_links, broken_links,
                                     broken_details, target, resolve_calls,
                                     exists_calls, none_hits >>
                ELSE /\ total_links' = total_links + 1
                     /\ resolve_calls' = resolve_calls + 1
                     /\ UNCHANGED << idx, links >>
                     /\ IF r = Raised
                        THEN /\ pc' = "aborted"
                             /\ UNCHANGED << li, target, broken_links,
                                             broken_details, exists_calls,
                                             none_hits >>
                        ELSE IF r = None
                        THEN /\ target' = r
                             /\ none_hits' = none_hits + 1
                             /\ li' = li + 1
                             /\ UNCHANGED << pc, broken_links, broken_details,
                                             exists_calls >>
                        ELSE /\ target' = r
                             /\ exists_calls' = exists_calls + 1
                             /\ li' = li + 1
                             /\ IF ~exists(r.path)
                                THEN /\ broken_links' = CountBroken(broken_links)
                                     /\ broken_details' =
                                            RecordBroken(broken_details,
                                                         Detail(md_file, l, r.path))
                                ELSE UNCHANGED << broken_links, broken_details >>
                             /\ UNCHANGED << pc, none_hits >>
    /\ UNCHANGED << fsVars, gone, out, total_files, md_files, ret, counted,
                    run, first >>

\* Lines 112-134: the report and the exit code.
Report ==
    /\ pc = "report"
    /\ out' = out \o ReportLines(broken_details, total_files, total_links,
                                 broken_links)
    /\ ret' = ExitCode(broken_links)
    /\ pc' = "done"
    /\ UNCHANGED << fsVars, gone, total_files, total_links, broken_links,
                    broken_details, md_files, idx, links, li, target, counted,
                    resolve_calls, exists_calls, none_hits, run, first >>

\* Another process removes a markdown file while the auditor runs.
Vanish ==
    /\ pc \in {"file", "read", "link"}
    /\ Cardinality(gone) < MaxVanish
    /\ \E f \in files \cap MdCandidates :
           /\ files' = files \ {f}
           /\ unreadable' = unreadable \ {f}
           /\ gone' = gone \cup {f}
    /\ UNCHANGED << dirs, tree, pc, runVars, run, first >>

\* The process is started again once it has ended.
Rerun ==
    /\ pc \in {"done", "aborted"}
    /\ run = 1
    /\ first' = [pc |-> pc, out |-> out, total_files |-> total_files,
                 total_links |-> total_links, broken_links |-> broken_links,
                 broken_details |-> broken_details, md_files |-> md_files,
                 ret |-> ret]
    /\ run' = 2
    /\ pc' = "start"
    /\ out' = <<>>
    /\ total_files' = 0
    /\ total_links' = 0
    /\ broken_links' = 0
    /\ broken_details' = <<>>
    /\ md_files' = <<>>
    /\ idx' = 1
    /\ links' = <<>>
    /\ li' = 1
    /\ target' = NoTarget
    /\ ret' = NoRet
    /\ counted' = {}
    /\ resolve_calls' = 0
    /\ exists_calls' = 0
    /\ none_hits' = 0
    /\ UNCHANGED << fsVars, gone >>

\* ----------------------------------------------------------- specifications

TreeOf(kind) ==
    /\ files = {f \in MdCandidates : kind[f] \in {"file", "unreadable"}}
    /\ unreadable = {f \in MdCandidates : kind[f] = "unreadable"}
    /\ dirs = BaseDirs \cup {f \in MdCandidates : kind[f] = "dir"}

Fresh ==
    /\ pc = "start"
    /\ out = <<>>
    /\ total_files = 0
    /\ total_links = 0
    /\ broken_links = 0
    /\ broken_details = <<>>
    /\ md_files = <<>>
    /\ idx = 1
    /\ links = <<>>
    /\ li = 1
    /\ target = NoTarget
    /\ ret = NoRet
    /\ counted = {}
    /\ resolve_calls = 0
    /\ exists_calls = 0
    /\ none_hits = 0
    /\ gone = {}
    /\ run = 1
    /\ first = NoFirst

\* One run over any tree of the candidates, whatever the files hold.
Init ==
    /\ \E kind \in [MdCandidates -> Kinds] : TreeOf(kind)
    /\ tree = [f \in MdCandidates |-> Unset]
    /\ Fresh

Next == Start \/ NextFile \/ ReadFile \/ LinkStep \/ Report \/ Vanish

Spec == Init /\ [][Next]_vars

\* Two runs over a tree that does not change and whose contents are fixed.
TwiceContents ==
    { <<>>,
      Item(<<"t">>, <<"x">>),
      Item(<<"t">>, <<"a", ".", "md">>) \o Item(<<"u">>, <<"/", "y", "#", "s">>),
      Item(<<"t">>, <<"#", "s">>) \o Item(<<"t">>, <<"a", "NUL">>) }

InitTwice ==
    /\ \E kind \in [MdCandidates -> {"file", "unreadable", "absent"}] :
           TreeOf(kind)
    /\ tree \in [MdCandidates -> TwiceContents]
    /\ Fresh

NextTwice == Start \/ NextFile \/ ReadFile \/ LinkStep \/ Report \/ Rerun

SpecTwice == InitTwice /\ [][NextTwice]_vars

\* The auditor inside a file whose only link is drawn from all short strings:
\* the three files exist, the files before the current one held no link.
LinkAlphabet == {"/", ".", "#", "a", "md", "docs", "NUL"}

ResolverLinks ==
    UNION {[1..n -> LinkAlphabet] : n \in 1..MaxBodyLen}
    \cup {HttpPrefix \o <<"a">>, MailtoPrefix \o <<"a">>}

AllFiles == <<Readme, DocA, DocB>>

InitResolve ==
    /\ TreeOf([f \in MdCandidates |-> "file"])
    /\ tree = [f \in MdCandidates |-> <<>>]
    /\ gone = {}
    /\ pc = "link"
    /\ out = HeaderLines
    /\ md_files = AllFiles
    /\ idx \in 1..Len(AllFiles)
    /\ total_files = idx
    /\ counted = {AllFiles[i] : i \in 1..idx}
    /\ total_links = 0
    /\ broken_links = 0
    /\ broken_details = <<>>
    /\ \E link \in ResolverLinks : links = <<[text |-> <<"t">>, link |-> link]>>
    /\ li = 1
    /\ target = NoTarget
    /\ ret = NoRet
    /\ resolve_calls = 0
    /\ exists_calls = 0
    /\ none_hits = 0
    /\ run = 1
    /\ first = NoFirst

NextResolve == NextFile \/ ReadFile \/ LinkStep \/ Report

SpecResolve == InitResolve /\ [][NextResolve]_vars

\* ------------------------------------------------------------------ claims

Ended == pc \in {"done", "aborted"}

\* C1: a run that returns returns 0 exactly when the final broken-link count
\* is 0 and 1 exactly when it is at least 1; nothing else is ever returned,
\* and nothing is returned before the run is done.
C1_ExitCodeReflectsBrokenCount ==
    /\ pc = "done" =>
          /\ ret \in {0, 1}
          /\ ret = 0 <=> broken_links = 0
          /\ ret = 1 <=> broken_links >= 1
    /\ pc # "done" => ret = NoRet

C1_Witness == pc = "done" /\ ret = 1 /\ broken_links = 2

\* The prefixes C2 names, spelled here and not taken from the classifier.
SkippedPrefixes ==
    { <<"http:", "/", "/">>, <<"https:", "/", "/">>, <<"mailto:">>, <<"#">> }

StartsSkipped(link) == \E p \in SkippedPrefixes : StartsWith(link, p)

\* C2: the step that processes a link starting with http://, https://,
\* mailto: or # calls neither resolve_link nor exists() and leaves the
\* links-checked counter, the broken-links counter and the record list as
\* they were.
C2_ExternalAndAnchorLinksUntouched ==
    [][ (pc = "link" /\ li <= Len(links) /\ StartsSkipped(links[li].link))
        => /\ resolve_calls' = resolve_calls
           /\ exists_calls' = exists_calls
           /\ total_links' = total_links
           /\ broken_links' = broken_links
           /\ broken_details' = broken_details ]_vars

C2_Witness ==
    /\ pc = "link"
    /\ li = 2
    /\ StartsWith(links[1].link, <<"mailto:">>)
    /\ resolve_calls = 0
    /\ total_files = 3

\* What C8 says is printed once the loop has ended, for nb broken records.
RECURSIVE BlockKinds(_)
BlockKinds(nb) ==
    IF nb = 0 THEN <<>>
    ELSE <<"file", "link", "expected", "blank">> \o BlockKinds(nb - 1)

ReportKinds(nb) ==
    (IF nb > 0 THEN <<"broken_title">> \o BlockKinds(nb) ELSE <<>>)
    \o <<"rule", "summary", "files", "links", "broken", "blank">>
    \o <<IF nb = 0 THEN "all_valid" ELSE "found">>

KindsOf(seq) == [i \in 1..Len(seq) |-> seq[i].k]

WarnCount(seq) == Cardinality({i \in 1..Len(seq) : seq[i].k = "warn"})

HeaderThenWarnings(seq, w) ==
    /\ Len(seq) >= 3 + w
    /\ KindsOf(SubSeq(seq, 1, 3)) = <<"title", "rule", "blank">>
    /\ \A i \in 4..(3 + w) : seq[i].k = "warn"

\* The report after the header and w warnings: the blocks carry the records
\* in record order, the summary carries the three counters.
ReportAfter(seq, w) ==
    LET tail == SubSeq(seq, 4 + w, Len(seq))
        nb == Len(broken_details)
        sum == IF nb = 0 THEN 0 ELSE 1 + 4 * nb
    IN  /\ KindsOf(tail) = ReportKinds(nb)
        /\ \A i \in 1..nb :
              /\ tail[4 * i - 2].v = <<broken_details[i].source>>
              /\ tail[4 * i - 1].v =
                     <<broken_details[i].text, broken_details[i].link>>
              /\ tail[4 * i].v = <<broken_details[i].target>>
        /\ tail[sum + 3].v = <<total_files>>
        /\ tail[sum + 4].v = <<total_links>>
        /\ tail[sum + 5].v = <<broken_links>>

\* C8 as written: nothing is printed before the last file has been processed,
\* and the finished output is the header directly followed by the report.
C8_Original ==
    /\ pc # "done" => out = <<>>
    /\ pc = "done" => HeaderThenWarnings(out, 0) /\ ReportAfter(out, 0)

\* C8 amended: the header is printed before any file is processed; while the
\* files are processed only warnings for unreadable files are printed, after
\* the header; once all files are processed the rest follows in this order:
\* (only if there are broken links) the broken-links title and one block per
\* record in record order, then the summary of the three counts, then the
\* status line.
C8_ReportOrder ==
    /\ pc = "start" => out = <<>>
    /\ pc \in {"file", "read", "link", "report", "aborted"} =>
          /\ HeaderThenWarnings(out, WarnCount(out))
          /\ Len(out) = 3 + WarnCount(out)
    /\ pc = "done" =>
          /\ HeaderThenWarnings(out, WarnCount(out))
          /\ ReportAfter(out, WarnCount(out))

C8_Witness ==
    /\ pc = "done"
    /\ WarnCount(out) = 1
    /\ Len(broken_details) = 2

\* C9: the broken-links counter equals the number of records and is at most the
\* links-checked counter; every step leaves each of the three counters as it
\* is or adds exactly 1; a record, once appended, is never changed or removed.
C9_CountersAndRecords ==
    /\ [](/\ broken_links = Len(broken_details)
          /\ broken_links <= total_links)
    /\ [][ /\ total_files' \in {total_files, total_files + 1}
           /\ total_links' \in {total_links, total_links + 1}
           /\ broken_links' \in {broken_links, broken_links + 1}
           /\ Len(broken_details') >= Len(broken_details)
           /\ SubSeq(broken_details', 1, Len(broken_details)) = broken_details
         ]_vars

C9_Witness ==
    /\ pc = "link"
    /\ total_links = 3
    /\ broken_links = 2
    /\ Len(broken_details) = 2

\* C10 as written: the "target is None" branch is never taken, and every link
\* counted in links-checked has had its target checked for existence once.
C10_Original ==
    /\ none_hits = 0
    /\ exists_calls = total_links

\* C10 amended: the "target is None" branch is never taken; every link counted
\* in links-checked has had its target checked for existence exactly once,
\* except the one link whose resolution raised and ended the run.
C10_NoneBranchUnreachable ==
    /\ none_hits = 0
    /\ resolve_calls = total_links
    /\ pc # "aborted" => exists_calls = total_links
    /\ pc = "aborted" => exists_calls + 1 = total_links

C10_Witness ==
    /\ pc = "done"
    /\ total_links = 3
    /\ exists_calls = 3

\* C3 as written: when read_text raises for a file, a warning naming the file
\* is printed, the file adds nothing to files scanned, links checked or broken
\* links, none of its links is processed, and the run goes on with the next
\* file.
C3_Original ==
    [][ (pc = "read" /\ ReadRaises(md_file) /\ pc' # pc)
        => /\ out' = Append(out, Warning(md_file))
           /\ md_file \notin counted'
           /\ total_files' = Cardinality(counted')
           /\ total_links' = total_links
           /\ broken_links' = broken_links
           /\ broken_details' = broken_details
           /\ pc' = "file"
           /\ idx' = idx + 1 ]_vars

\* C4 as written: a file of the enumeration that another process removed
\* before its turn is skipped with a warning and is not counted as scanned,
\* whether it went before the is_file check or between that check and the
\* read.
C4_Original ==
    [][ /\ (pc = "file" /\ idx <= Len(md_files) /\ md_file \in gone
                /\ idx' = idx + 1)
           => /\ out' = Append(out, Warning(md_file))
              /\ md_file \notin counted'
        /\ (pc = "read" /\ md_file \in gone /\ pc' # pc)
           => /\ out' = Append(out, Warning(md_file))
              /\ md_file \notin counted' ]_vars

\* The path portion of a link: its longest prefix without "#".
RECURSIVE BeforeHash(_)
BeforeHash(s) ==
    IF s = <<>> \/ Head(s) = "#" THEN <<>>
    ELSE <<Head(s)>> \o BeforeHash(Tail(s))

HasHash(s) == \E i \in 1..Len(s) : s[i] = "#"

\* Following a relative path piece by piece from a directory.
RECURSIVE Walk(_, _)
Walk(dir, pieces) ==
    IF pieces = <<>> THEN dir
    ELSE IF Head(pieces) \in {<<>>, Dot} THEN Walk(dir, Tail(pieces))
    ELSE IF Head(pieces) = DotDot THEN Walk(Parent(dir), Tail(pieces))
    ELSE Walk(Append(dir, Head(pieces)), Tail(pieces))

RECURSIVE NamedPieces(_)
NamedPieces(pieces) ==
    IF pieces = <<>> THEN <<>>
    ELSE IF Head(pieces) \in {<<>>, Dot} THEN NamedPieces(Tail(pieces))
    ELSE <<Head(pieces)>> \o NamedPieces(Tail(pieces))

\* The inner loop has just resolved the only link of the current file.
Resolved == pc = "link" /\ li = 2 /\ Len(links) = 1 /\ target.tag = "path"

\* C5: the target of a link whose path portion starts with "/" is the project
\* root followed by the named pieces of the path, whatever the source file;
\* the target of any other link is reached from the directory of the source
\* file by following the path, "." staying and ".." going up.
C5_ResolutionAnchor ==
    Resolved =>
        LET link == links[1].link
            path == BeforeHash(link)
        IN  IF Head(path) = "/"
            THEN /\ target.path = PROJECT_ROOT \o NamedPieces(SplitSlash(path))
                 /\ \A f \in MdCandidates : resolve_link(f, link) = target
            ELSE target.path = Walk(Parent(md_file), SplitSlash(path))

C5_Witness ==
    /\ Resolved
    /\ md_file = DocB
    /\ links[1].link = <<"/", "/", "docs">>
    /\ target.path = DocsDir

\* C6: a link path#fragment resolves to the target of path alone, and it is
\* recorded as broken exactly when that target does not exist.
C6_FragmentIgnored ==
    (Resolved /\ HasHash(links[1].link)) =>
        LET link == links[1].link
            alone == resolve_link(md_file, BeforeHash(link))
        IN  /\ target = alone
            /\ broken_links = 1 <=> ~exists(alone.path)
            /\ broken_links = Len(broken_details)
            /\ broken_links = 1 => broken_details[1].link = link

C6_Witness ==
    /\ Resolved
    /\ md_file = DocA
    /\ links[1].link = <<".", "#", "a">>
    /\ target.path = DocsDir
    /\ broken_links = 0

RECURSIVE StrictlySorted(_)
StrictlySorted(seq) ==
    Len(seq) < 2 \/ (PathLess(seq[1], seq[2]) /\ StrictlySorted(Tail(seq)))

\* C7: a second run over the unchanged tree ends as the first did, with the
\* same three counts, the same records in the same order, the same output and
\* the same exit code; the files are walked in sorted order without repeats.
C7_SecondRunIdentical ==
    /\ pc # "start" => StrictlySorted(md_files)
    /\ (run = 2 /\ Ended) =>
          /\ first.pc = pc
          /\ first.total_files = total_files
          /\ first.total_links = total_links
          /\ first.broken_links = broken_links
          /\ first.broken_details = broken_details
          /\ first.md_files = md_files
          /\ first.out = out
          /\ first.ret = ret

C7_Witness ==
    /\ run = 2
    /\ pc = "done"
    /\ Len(md_files) = 3
    /\ Len(broken_details) = 4

====
